---- MODULE Spec2Model ----
(***************************************************************************)
(* db-connect: the client facade (DbConnect.ping / DbConnect.submit), the  *)
(* command and connection initializers, and the caching fetch layer        *)
(* (HttpClient) of src/unnamed/part_002.                                   *)
(*                                                                         *)
(* Strings that the code processes character by character (host names,    *)
(* statements, request bodies) are sequences of tokens; the characters the *)
(* code treats specially (the double quote and the backslash of JSON, the  *)
(* leading "http" of a host, the gateway suffix of a host name) are always *)
(* tokens of their own.  Flat gives the string a token sequence spells.    *)
(***************************************************************************)
EXTENDS Integers, Sequences, FiniteSets, TLC

VARIABLES
    conn,   \* the DbConnect instance: its HttpClient's url and init.headers
    cache,  \* the cache store (caches.default): key url -> stored Response
    calls,  \* the ping/submit calls: position in HttpClient.fetch and locals
    pin,    \* input of the pure function under study (pure specifications)
    pout    \* its result

vars == <<conn, cache, calls, pin, pout>>

\* ------------------------------------------------------------------ bounds
MaxCalls == 2
MaxTtl == 4
MaxBodyLen == 2

\* ----------------------------------------------------------------- strings
Quote == "\""
Backslash == "\\"

RECURSIVE Flat(_)
Flat(s) == IF s = <<>> THEN "" ELSE Head(s) \o Flat(Tail(s))

Digit(d) == <<"0", "1", "2", "3", "4", "5", "6", "7", "8", "9">>[d + 1]

\* Number-to-string conversion of a template literal / JSON.stringify.
RECURSIVE Dec(_)
Dec(n) ==
    IF n < 0 THEN "-" \o Dec(-n)
    ELSE IF n < 10 THEN Digit(n)
    ELSE Dec(n \div 10) \o Digit(n % 10)

StartsWith(s, tok) == s # <<>> /\ Head(s) = tok
EndsWith(s, tok) == s # <<>> /\ s[Len(s)] = tok

\* ------------------------------------------------------- values and objects
\* A JavaScript value: a number, a string (token sequence) or an array of
\* numbers.  An object is the sequence of its own enumerable properties in
\* insertion order.
Num(n) == [t |-> "num", n |-> n, s |-> <<>>, a |-> <<>>]
Str(s) == [t |-> "str", n |-> 0, s |-> s, a |-> <<>>]
Arr(a) == [t |-> "arr", n |-> 0, s |-> <<>>, a |-> a]
Prop(k, v) == [k |-> k, v |-> v]

HasOwn(o, k) == \E i \in 1..Len(o) : o[i].k = k
Get(o, k) == o[CHOOSE i \in 1..Len(o) : o[i].k = k].v

\* o[k] = v: an existing property keeps its place, a new one is appended.
SetProp(o, k, v) ==
    IF HasOwn(o, k)
    THEN [i \in 1..Len(o) |-> IF o[i].k = k THEN Prop(k, v) ELSE o[i]]
    ELSE Append(o, Prop(k, v))

RECURSIVE ObjectAssign(_, _)
ObjectAssign(target, source) ==
    IF source = <<>> THEN target
    ELSE ObjectAssign(SetProp(target, Head(source).k, Head(source).v), Tail(source))

\* !o[k]: undefined, 0 and the empty string are falsy; an array is truthy.
Falsy(o, k) ==
    \/ ~HasOwn(o, k)
    \/ LET v == Get(o, k)
       IN  \/ v.t = "num" /\ v.n = 0
           \/ v.t = "str" /\ v.s = <<>>

Return(v) == [ok |-> TRUE, val |-> v, err |-> ""]
Throw(e) == [ok |-> FALSE, val |-> <<>>, err |-> e]

\* --------------------------------------------------------------------- JSON
RECURSIVE Escape(_)
Escape(s) ==
    IF s = <<>> THEN <<>>
    ELSE (IF Head(s) \in {Quote, Backslash} THEN <<Backslash, Head(s)>> ELSE <<Head(s)>>)
         \o Escape(Tail(s))

JsonString(s) == <<Quote>> \o Escape(s) \o <<Quote>>

RECURSIVE JsonNumbers(_)
JsonNumbers(a) ==
    IF a = <<>> THEN <<>>
    ELSE IF Len(a) = 1 THEN <<Dec(a[1])>>
    ELSE <<Dec(a[1]), ",">> \o JsonNumbers(Tail(a))

JsonValue(v) ==
    CASE v.t = "num" -> <<Dec(v.n)>>
      [] v.t = "str" -> JsonString(v.s)
      [] v.t = "arr" -> <<"[">> \o JsonNumbers(v.a) \o <<"]">>

RECURSIVE JsonMembers(_)
JsonMembers(o) ==
    IF o = <<>> THEN <<>>
    ELSE (<<Quote, Head(o).k, Quote, ":">> \o JsonValue(Head(o).v))
         \o (IF Len(o) = 1 THEN <<>> ELSE <<",">> \o JsonMembers(Tail(o)))

\* JSON.stringify of an object: its own properties in insertion order.
JsonStringify(o) == <<"{">> \o JsonMembers(o) \o <<"}">>

\* ------------------------------------------------------------------ Command
\* The defaults of CommandInit.
NoArguments == Arr(<<>>)
ModeQuery == Str(<<"query">>)
TimeoutIndefinite == Num(0)
IsolationNone == Str(<<"none">>)
TtlFresh == Num(0)
TtlUncached == Num(-1)
StatementRequired == Throw("statement is a required argument")

\* if(!this.k) this.k = v
OrDefault(o, k, v) == IF Falsy(o, k) THEN SetProp(o, k, v) ELSE o

\* if(!this.k) this.k = this.from
OrDefaultFrom(o, k, from) == IF Falsy(o, k) THEN SetProp(o, k, Get(o, from)) ELSE o

\* The body of CommandInit's constructor, after Object.assign(this, parameters).
CommandInitChecks(o0) ==
    IF Falsy(o0, "statement") THEN StatementRequired
    ELSE
    LET o1 == OrDefault(o0, "arguments", NoArguments)
        o2 == OrDefault(o1, "mode", ModeQuery)
        o3 == OrDefault(o2, "timeout", TimeoutIndefinite)
        o4 == OrDefault(o3, "isolation", IsolationNone)
        o5 == OrDefault(o4, "cacheTtl", TtlUncached)
        o6 == OrDefaultFrom(o5, "staleTtl", "cacheTtl")
    IN  Return(o6)

CommandInit(parameters) == CommandInitChecks(ObjectAssign(<<>>, parameters))

\* Command's constructor, after new CommandInit(parameters).
CommandAssign(init) == IF init.ok THEN Return(ObjectAssign(<<>>, init.val)) ELSE init

Command(parameters) == CommandAssign(CommandInit(parameters))

\* --------------------------------------------------------------- cacheHeader
\* A boundary slip: a ttl of 0 loses its max-age clause.
cacheHeaderPositiveOnly(cacheTtl, staleTtl) ==
    LET c0 == "public"
        c1 == IF cacheTtl < 0 /\ staleTtl < 0 THEN "private no-store no-cache" ELSE c0
        c2 == IF cacheTtl > 0 THEN c1 \o ", max-age=" \o Dec(cacheTtl) ELSE c1
        c3 == IF staleTtl >= 0 THEN c2 \o ", stale-while-revalidate=" \o Dec(staleTtl) ELSE c2
    IN  c3

cacheHeader(cacheTtl, staleTtl) ==
    LET c0 == "public"
        c1 == IF cacheTtl < 0 /\ staleTtl < 0 THEN "private no-store no-cache" ELSE c0
        c2 == IF cacheTtl >= 0 THEN c1 \o ", max-age=" \o Dec(cacheTtl) ELSE c1
        c3 == IF staleTtl >= 0 THEN c2 \o ", stale-while-revalidate=" \o Dec(staleTtl) ELSE c2
    IN  c3

\* ---------------------------------------------------------------------- URL
NoUrl == [protocol |-> "", hostname |-> <<>>, pathname |-> ""]

\* new URL(s): an absolute URL needs a scheme; anything else is a TypeError.
URL(s) ==
    IF Len(s) >= 3 /\ s[1] = "http" /\ s[2] = "://"
    THEN Return([protocol |-> "http:", hostname |-> SubSeq(s, 3, Len(s)), pathname |-> "/"])
    ELSE IF Len(s) >= 4 /\ s[1] = "http" /\ s[2] = "s" /\ s[3] = "://"
    THEN Return([protocol |-> "https:", hostname |-> SubSeq(s, 4, Len(s)), pathname |-> "/"])
    ELSE Throw("Invalid URL")

\* new URL(path, base).toString() for a relative path without a slash.
ResolvePath(path, base) ==
    base.protocol \o "//" \o Flat(base.hostname) \o "/" \o path

\* ---------------------------------------------------------------- DbConnect
EmptyHeaders == [n \in {} |-> ""]

\* if(!this.host.startsWith('http')) this.host = `https://${this.host}`
SchemePrefixed(o) ==
    IF ~StartsWith(Get(o, "host").s, "http")
    THEN SetProp(o, "host", Str(<<"http", "s", "://">> \o Get(o, "host").s))
    ELSE o

\* if(!this.clientId != !this.clientSecret) throw
CredentialsPaired(o) ==
    IF Falsy(o, "clientId") # Falsy(o, "clientSecret")
    THEN Throw("both clientId and clientSecret must be specified")
    ELSE Return(o)

\* The body of DbConnectInit's constructor, after Object.assign(this, parameters).
DbConnectInitChecks(o) ==
    IF Falsy(o, "host") THEN Throw("host is a required argument")
    ELSE CredentialsPaired(SchemePrefixed(o))

DbConnectInit(parameters) == DbConnectInitChecks(ObjectAssign(<<>>, parameters))

NoConn(e) == [ok |-> FALSE, url |-> NoUrl, headers |-> EmptyHeaders, err |-> e]

\* The constructor: the connection is its HttpClient's url and init.headers
\* (keepalive and cf.cacheEverything are fixed, see initMerge).
\* if(init.clientId) { headers.set(...); headers.set(...) }
CredentialHeaders(o) ==
    IF ~Falsy(o, "clientId")
    THEN ("Cf-access-client-id" :> Flat(Get(o, "clientId").s))
         @@ ("Cf-access-client-secret" :> Flat(Get(o, "clientSecret").s))
    ELSE EmptyHeaders

\* new HttpClient(url, {headers, keepalive, cf}) once new URL(init.host) is known.
DbConnectClient(o, url) ==
    IF ~url.ok THEN NoConn(url.err)
    ELSE [ok |-> TRUE, url |-> url.val, headers |-> CredentialHeaders(o), err |-> ""]

DbConnectWith(init) ==
    IF ~init.ok THEN NoConn(init.err)
    ELSE DbConnectClient(init.val, URL(Get(init.val, "host").s))

DbConnect(parameters) == DbConnectWith(DbConnectInit(parameters))

\* --------------------------------------------------------------- HttpClient
PingInit ==
    [method |-> "GET", hasBody |-> FALSE, body |-> <<>>, headers |-> EmptyHeaders]

\* headers: {'Content-type': 'application/json'}
JsonContent == "Content-type" :> "application/json"

\* The init of submit for a serialized body.
PostJson(body) ==
    [method |-> "POST", hasBody |-> TRUE, body |-> body, headers |-> JsonContent]

\* A body that carries the statement alone.
SubmitInitStatementOnly(cmd) ==
    PostJson(JsonStringify(<<Prop("statement", Get(cmd, "statement"))>>))

SubmitInit(cmd) == PostJson(JsonStringify(cmd))

\* Object.entries(this.init.headers): the connection's headers are a Headers
\* instance, which has no own enumerable string-keyed property.
HeadersOwnKeys(h) == {}

\* for(var kv of Object.entries(this.init.headers)) init.headers[kv[0]] = [1]
initMergeLoop(h, own) ==
    [n \in (DOMAIN h) \cup own |-> IF n \in own THEN "1" ELSE h[n]]

\* The assignment the other way round: what the call brings is kept.
initMergeAssignInitWins(init, c) ==
    [init EXCEPT !.keepalive = TRUE, !.cacheEverything = TRUE]

\* Object.assign(init, this.init): headers, keepalive and cf are replaced.
initMergeAssign(init, c) ==
    [init EXCEPT !.headers = c.headers, !.keepalive = TRUE, !.cacheEverything = TRUE]

initMerge(c, init) ==
    initMergeAssign(
        [method |-> init.method, hasBody |-> init.hasBody, body |-> init.body,
         headers |-> initMergeLoop(init.headers, HeadersOwnKeys(c.headers)),
         keepalive |-> FALSE, cacheEverything |-> FALSE],
        c)

\* SHA-256 and its hexadecimal rendering, taken as collision-free: the digest
\* of a byte sequence is represented by that sequence under a tag.
DigestHex(bytes) == "sha256:" \o Flat(bytes)

\* sha256(object) for a string: the digest of JSON.stringify(object).
sha256(object) == DigestHex(JsonString(object))

\* A key that leaves the content hash out.
cacheKeyRequestUnhashed(p, m) ==
    [url |-> p, method |-> "GET", headers |-> m.headers]

\* cacheKey, once path and init are resolved.
cacheKeyRequest(p, m) ==
    IF m.method # "POST"
    THEN [url |-> p, method |-> m.method, headers |-> m.headers]
    ELSE [url |-> p \o "/_/" \o sha256(m.body), method |-> "GET", headers |-> m.headers]

cacheKey(c, path, init) == cacheKeyRequest(ResolvePath(path, c.url), initMerge(c, init))

\* fetch(path, init) of fetchOrigin, once path and init are resolved.
originFetch(p, m) ==
    [url |-> p, method |-> m.method, headers |-> m.headers,
     hasBody |-> m.hasBody, body |-> m.body]

\* The request fetchOrigin hands to the transport.
originRequest(c, path, init) == originFetch(ResolvePath(path, c.url), initMerge(c, init))

GatewaySuffix == "cloudflareaccess.com"
Rejected == "client credentials rejected by cloudflare access"

\* new Response(body, init): status and headers are taken from init.
Response(body, init) == [status |-> init.status, headers |-> init.headers, body |-> body]
Ok(r) == r.status \in 200..299

\* fetchOrigin, from the transport's response on.
originResponse(raw) ==
    IF raw.redirected /\ EndsWith(raw.hostname, GatewaySuffix)
    THEN Response(Rejected, raw)
    ELSE Response(raw.body, raw)

HeadersSet(h, n, v) == [x \in (DOMAIN h) \cup {n} |-> IF x = n THEN v ELSE h[x]]

\* The early return of fetch: caching is off for this call.
bypassNever(cacheTtl, staleTtl) == FALSE

bypass(cacheTtl, staleTtl) == cacheTtl < 0 /\ staleTtl < 0

NoKey == [url |-> "", method |-> "", headers |-> EmptyHeaders]
NoRequest == [url |-> "", method |-> "", headers |-> EmptyHeaders, hasBody |-> FALSE, body |-> <<>>]
NoRaw == [status |-> 0, headers |-> EmptyHeaders, body |-> "", redirected |-> FALSE, hostname |-> <<>>]
NoResponse == [status |-> 0, headers |-> EmptyHeaders, body |-> ""]

\* A call of ping or submit: where it stands in HttpClient.fetch, its locals,
\* and what it has done so far (the request sent to the origin, the numbers
\* of origin calls, cache.match calls and cache.put calls).
NoCall ==
    [pc |-> "idle", op |-> "", cmd |-> <<>>, path |-> "", init |-> PingInit,
     cacheTtl |-> 0, staleTtl |-> 0, key |-> NoKey, hit |-> FALSE,
     req |-> NoRequest, raw |-> NoRaw, resp |-> NoResponse, putKey |-> NoKey,
     nOrigin |-> 0, nMatch |-> 0, nPut |-> 0, err |-> ""]

\* fetch, up to the first await of the cache or of the origin.
fetchBegin(c, op, cmd, path, init, cacheTtl, staleTtl) ==
    [NoCall EXCEPT !.pc = "keyed", !.op = op, !.cmd = cmd, !.path = path, !.init = init,
                   !.cacheTtl = cacheTtl, !.staleTtl = staleTtl,
                   !.key = cacheKey(c, path, init)]

\* fetchOrigin, up to the await of the transport.
fetchOriginSend(c, call) ==
    [call EXCEPT !.pc = "origin", !.nOrigin = @ + 1,
                 !.req = originRequest(c, call.path, call.init)]

\* A hit that is wrapped again as new Response(stored.body), losing status
\* and headers.
fetchHitRewrapped(call, stored) ==
    [call EXCEPT !.pc = "done", !.hit = TRUE, !.nMatch = @ + 1,
                 !.resp = [status |-> 200, headers |-> EmptyHeaders, body |-> stored.body]]

\* cache.match returned a response: it is returned as it is.
fetchHit(call, stored) ==
    [call EXCEPT !.pc = "done", !.hit = TRUE, !.nMatch = @ + 1, !.resp = stored]

\* cache.match returned nothing: on to the origin.
fetchMiss(c, call) ==
    fetchOriginSend(c, [call EXCEPT !.nMatch = @ + 1])

\* The transport answered: fetchOrigin returns, and on the caching path the
\* directive is set and cache.put is awaited.
fetchOriginReturned(call, raw, response) ==
    IF bypass(call.cacheTtl, call.staleTtl)
    THEN [call EXCEPT !.pc = "done", !.raw = raw, !.resp = response]
    ELSE [call EXCEPT !.pc = "put", !.raw = raw,
                      !.resp = [response EXCEPT !.headers =
                          HeadersSet(@, "Cache-control",
                                     cacheHeader(call.cacheTtl, call.staleTtl))]]

fetchOriginReturn(call, raw) == fetchOriginReturned(call, raw, originResponse(raw))

\* One more attempt after a transport failure.
fetchOriginRetry(call) ==
    IF call.nOrigin < 2
    THEN [call EXCEPT !.nOrigin = @ + 1]
    ELSE [call EXCEPT !.pc = "rejected", !.err = "fetch failed"]

\* The transport failed: fetch(path, init) rejects and nothing catches it.
fetchOriginThrow(call) ==
    [call EXCEPT !.pc = "rejected", !.err = "fetch failed"]

\* cache.put(key, response.clone()) completed.
fetchPutDone(call) ==
    [call EXCEPT !.pc = "done", !.nPut = @ + 1, !.putKey = call.key]

\* A put that leaves an existing entry in place.
StorePutIfAbsent(store, url, response) ==
    [u \in (DOMAIN store) \cup {url} |-> IF u \in DOMAIN store THEN store[u] ELSE response]

\* The store: cache.put and its own eviction.
StorePut(store, url, response) ==
    [u \in (DOMAIN store) \cup {url} |-> IF u = url THEN response ELSE store[u]]

StoreEvict(store, url) ==
    [u \in (DOMAIN store) \ {url} |-> store[u]]

\* ------------------------------------------------------------------- inputs
CallIds == 1..MaxCalls

HostName == <<"db.example.com">>

ConnParameters ==
    { <<Prop("host", Str(HostName))>>,
      <<Prop("host", Str(<<"http", "s", "://">> \o HostName)),
        Prop("clientId", Str(<<"id">>)), Prop("clientSecret", Str(<<"secret">>))>> }

\* Parameters that new DbConnect refuses: no host, and one credential
\* without the other.
BadConnParameters ==
    { <<Prop("clientId", Str(<<"id">>)), Prop("clientSecret", Str(<<"secret">>))>>,
      <<Prop("host", Str(HostName)), Prop("clientId", Str(<<"id">>))>> }

Select1 == <<"SELECT 1">>
SelectA == <<"SELECT ", Quote, "a", Quote>>

Uncached == <<Prop("statement", Str(Select1))>>

SubmitParameters ==
    { Uncached,
      <<Prop("statement", Str(Select1)), Prop("cacheTtl", Num(60))>>,
      <<Prop("statement", Str(SelectA)), Prop("cacheTtl", Num(-1)), Prop("staleTtl", Num(3))>>,
      <<Prop("cacheTtl", Num(60))>> }

\* What the transport can answer: the origin itself, or a redirect that
\* ends at the Access login page.
Json == "Content-type" :> "application/json"
JsonNoCache == Json @@ ("Cache-control" :> "no-cache")
Html == "Content-type" :> "text/html"

Rows ==
    [status |-> 200, headers |-> Json, body |-> "[{n:1}]",
     redirected |-> FALSE, hostname |-> <<>>]
NoSuchTable ==
    [status |-> 500, headers |-> JsonNoCache, body |-> "no such table",
     redirected |-> FALSE, hostname |-> <<>>]
LoginPage ==
    [status |-> 200, headers |-> Html, body |-> "<html>login</html>",
     redirected |-> TRUE, hostname |-> <<"team.", GatewaySuffix>>]
Forbidden ==
    [status |-> 403, headers |-> Html, body |-> "<html>forbidden</html>",
     redirected |-> TRUE, hostname |-> <<"team.", GatewaySuffix>>]

RawResponses(c) ==
    { [Rows EXCEPT !.hostname = c.url.hostname],
      [NoSuchTable EXCEPT !.hostname = c.url.hostname],
      LoginPage,
      Forbidden }

\* The store is shared: it may already hold an entry another user wrote.
EmptyStore == [u \in {} |-> NoResponse]
Foreign == [status |-> 200, headers |-> Json, body |-> "[]"]

InitialStores(c) ==
    { EmptyStore,
      cacheKey(c, "submit", SubmitInit(Command(Uncached).val)).url :> Foreign }

\* ------------------------------------------------------------------ actions
Init ==
    /\ conn \in {DbConnect(p) : p \in ConnParameters \cup BadConnParameters}
    /\ cache \in InitialStores(conn)
    /\ calls = [i \in CallIds |-> NoCall]
    /\ pin = <<>>
    /\ pout = <<>>

\* The commands a caller can have built with new Command before submit.
Commands == {Command(p).val : p \in {q \in SubmitParameters : Command(q).ok}}

\* A plain record is submitted without caching, whatever ttls it carries.
submitCommandUncached(isCommand, command) ==
    IF isCommand THEN Return(command)
    ELSE Command(SetProp(SetProp(command, "cacheTtl", Num(-1)), "staleTtl", Num(-1)))

\* if(!(command instanceof Command)) command = new Command(command)
submitCommand(isCommand, command) ==
    IF isCommand THEN Return(command) ELSE Command(command)

\* A submit that looks the cache up before it normalizes its argument.
submitMatchesFirst(c, made) ==
    IF ~made.ok
    THEN [NoCall EXCEPT !.pc = "rejected", !.op = "submit", !.err = made.err, !.nMatch = 1]
    ELSE fetchBegin(c, "submit", made.val, "submit", SubmitInit(made.val),
                    Get(made.val, "cacheTtl").n, Get(made.val, "staleTtl").n)

\* submit, given the outcome of the normalization.
submit(c, made) ==
    IF ~made.ok
    THEN [NoCall EXCEPT !.pc = "rejected", !.op = "submit", !.err = made.err]
    ELSE fetchBegin(c, "submit", made.val, "submit", SubmitInit(made.val),
                    Get(made.val, "cacheTtl").n, Get(made.val, "staleTtl").n)

Unstarted(i) == calls[i].pc = "idle" /\ \A j \in CallIds : j < i => calls[j].pc # "idle"

Ping(i) ==
    /\ conn.ok
    /\ Unstarted(i)
    /\ calls' = [calls EXCEPT ![i] = fetchBegin(conn, "ping", <<>>, "ping", PingInit, 0, 3)]
    /\ UNCHANGED <<conn, cache, pin, pout>>

\* submit(command): a Command is used as it is, anything else is normalized.
Submit(i, isCommand, command) ==
    /\ conn.ok
    /\ Unstarted(i)
    /\ calls' = [calls EXCEPT ![i] = submit(conn, submitCommand(isCommand, command))]
    /\ UNCHANGED <<conn, cache, pin, pout>>

FetchBypass(i) ==
    /\ calls[i].pc = "keyed"
    /\ bypass(calls[i].cacheTtl, calls[i].staleTtl)
    /\ calls' = [calls EXCEPT ![i] = fetchOriginSend(conn, calls[i])]
    /\ UNCHANGED <<conn, cache, pin, pout>>

CacheHit(i) ==
    /\ calls[i].pc = "keyed"
    /\ ~bypass(calls[i].cacheTtl, calls[i].staleTtl)
    /\ calls[i].key.url \in DOMAIN cache
    /\ calls' = [calls EXCEPT ![i] = fetchHit(calls[i], cache[calls[i].key.url])]
    /\ UNCHANGED <<conn, cache, pin, pout>>

\* A lookup that never finds the entry.
CacheMissAlways(i) ==
    /\ calls[i].pc = "keyed"
    /\ ~bypass(calls[i].cacheTtl, calls[i].staleTtl)
    /\ calls' = [calls EXCEPT ![i] = fetchMiss(conn, calls[i])]
    /\ UNCHANGED <<conn, cache, pin, pout>>

CacheMiss(i) ==
    /\ calls[i].pc = "keyed"
    /\ ~bypass(calls[i].cacheTtl, calls[i].staleTtl)
    /\ calls[i].key.url \notin DOMAIN cache
    /\ calls' = [calls EXCEPT ![i] = fetchMiss(conn, calls[i])]
    /\ UNCHANGED <<conn, cache, pin, pout>>

OriginRespond(i, raw) ==
    /\ calls[i].pc = "origin"
    /\ calls' = [calls EXCEPT ![i] = fetchOriginReturn(calls[i], raw)]
    /\ UNCHANGED <<conn, cache, pin, pout>>

OriginFail(i) ==
    /\ calls[i].pc = "origin"
    /\ calls' = [calls EXCEPT ![i] = fetchOriginThrow(calls[i])]
    /\ UNCHANGED <<conn, cache, pin, pout>>

\* A put that clears the rest of the store.
CachePutPurging(i) ==
    /\ calls[i].pc = "put"
    /\ cache' = StorePut(EmptyStore, calls[i].key.url, calls[i].resp)
    /\ calls' = [calls EXCEPT ![i] = fetchPutDone(calls[i])]
    /\ UNCHANGED <<conn, pin, pout>>

CachePut(i) ==
    /\ calls[i].pc = "put"
    /\ cache' = StorePut(cache, calls[i].key.url, calls[i].resp)
    /\ calls' = [calls EXCEPT ![i] = fetchPutDone(calls[i])]
    /\ UNCHANGED <<conn, pin, pout>>

Evict(url) ==
    /\ url \in DOMAIN cache
    /\ cache' = StoreEvict(cache, url)
    /\ UNCHANGED <<conn, calls, pin, pout>>

Next ==
    \/ \E i \in CallIds : Ping(i)
    \/ \E i \in CallIds, p \in SubmitParameters : Submit(i, FALSE, p)
    \/ \E i \in CallIds, cmd \in Commands : Submit(i, TRUE, cmd)
    \/ \E i \in CallIds : FetchBypass(i)
    \/ \E i \in CallIds : CacheHit(i)
    \/ \E i \in CallIds : CacheMiss(i)
    \/ \E i \in CallIds, raw \in RawResponses(conn) : OriginRespond(i, raw)
    \/ \E i \in CallIds : OriginFail(i)
    \/ \E i \in CallIds : CachePut(i)
    \/ \E url \in DOMAIN cache : Evict(url)

Spec == Init /\ [][Next]_vars

\* ------------------------------------------------- pure: cacheHeader
Ttls == (-2..MaxTtl) \cup {60}

InitHeader ==
    /\ conn = NoConn("")
    /\ cache = EmptyStore
    /\ calls = [i \in CallIds |-> NoCall]
    /\ pin \in [cacheTtl : Ttls, staleTtl : Ttls]
    /\ pout = [done |-> FALSE, value |-> ""]

ApplyCacheHeader ==
    /\ ~pout.done
    /\ pout' = [done |-> TRUE, value |-> cacheHeader(pin.cacheTtl, pin.staleTtl)]
    /\ UNCHANGED <<conn, cache, calls, pin>>

NextHeader == ApplyCacheHeader

SpecHeader == InitHeader /\ [][NextHeader]_vars

\* ---------------------------------------------------- pure: cacheKey
\* Request bodies: every string of at most MaxBodyLen characters over a
\* plain letter, the double quote and the backslash.
BodyChars == {"a", Quote, Backslash}
Bodies == UNION {[1..n -> BodyChars] : n \in 0..MaxBodyLen}

InitKey ==
    /\ conn \in {DbConnect(p) : p \in ConnParameters}
    /\ cache = EmptyStore
    /\ calls = [i \in CallIds |-> NoCall]
    /\ pin \in [a : Bodies, b : Bodies]
    /\ pout = [done |-> FALSE, a |-> NoKey, b |-> NoKey]

ApplyCacheKey ==
    /\ ~pout.done
    /\ pout' = [done |-> TRUE,
                a |-> cacheKey(conn, "submit", PostJson(pin.a)),
                b |-> cacheKey(conn, "submit", PostJson(pin.b))]
    /\ UNCHANGED <<conn, cache, calls, pin>>

NextKey == ApplyCacheKey

SpecKey == InitKey /\ [][NextKey]_vars

\* ------------------------------------------------------ pure: Command
\* enum Mode and enum Isolation.
Modes == {"query", "exec"}
Isolations ==
    {"none", "default", "read_uncommitted", "read_committed", "write_committed",
     "repeatable_read", "snapshot", "serializable", "linearizable"}

\* A property that is absent, or present with one of the given values.
Opt(k, vs) == {<<>>} \cup {<<Prop(k, v)>> : v \in vs}

CommandFields ==
    {"statement", "arguments", "mode", "timeout", "isolation", "cacheTtl", "staleTtl"}

\* Parameter records of new Command: every field absent or present, the
\* present values including the falsy ones (0 and the empty string) and
\* values outside Mode, Isolation and the non-negative timeouts.
CommandParameters ==
    { st \o ar \o mo \o ti \o iso \o ct \o sl :
        st \in Opt("statement", {Str(<<>>), Str(Select1)}),
        ar \in Opt("arguments", {Arr(<<1>>)}),
        mo \in Opt("mode", {Str(<<"exec">>), Str(<<"drop">>)}),
        ti \in Opt("timeout", {Num(0), Num(5), Num(-5)}),
        iso \in Opt("isolation", {Str(<<"serializable">>), Str(<<"chaos">>)}),
        ct \in Opt("cacheTtl", {Num(-1), Num(0), Num(60)}),
        sl \in Opt("staleTtl", {Num(-1), Num(0), Num(3), Num(10)}) }

InitCommand ==
    /\ conn = NoConn("")
    /\ cache = EmptyStore
    /\ calls = [i \in CallIds |-> NoCall]
    /\ pin \in CommandParameters
    /\ pout = [done |-> FALSE, made |-> Throw("")]

ApplyCommand ==
    /\ ~pout.done
    /\ pout' = [done |-> TRUE, made |-> Command(pin)]
    /\ UNCHANGED <<conn, cache, calls, pin>>

NextCommand == ApplyCommand

SpecCommand == InitCommand /\ [][NextCommand]_vars

\* ---------------------------------------------------- pure: DbConnect
\* Hosts: bare hostnames (one of them beginning with the letters http) and
\* URLs with a scheme.
Hosts ==
    { Str(<<>>),
      Str(HostName),
      Str(<<"localhost">>),
      Str(<<"http", "bin.org">>),
      Str(<<"http", "://">> \o HostName),
      Str(<<"http", "s", "://">> \o HostName) }

\* Parameter records of new DbConnect.
DbConnectParameters ==
    { h \o id \o sec :
        h \in Opt("host", Hosts),
        id \in Opt("clientId", {Str(<<>>), Str(<<"id">>)}),
        sec \in Opt("clientSecret", {Str(<<>>), Str(<<"secret">>)}) }

InitConnect ==
    /\ conn = NoConn("")
    /\ cache = EmptyStore
    /\ calls = [i \in CallIds |-> NoCall]
    /\ pin \in DbConnectParameters
    /\ pout = [done |-> FALSE, conn |-> NoConn("")]

ApplyDbConnect ==
    /\ ~pout.done
    /\ pout' = [done |-> TRUE, conn |-> DbConnect(pin)]
    /\ UNCHANGED <<conn, cache, calls, pin>>

NextConnect == ApplyDbConnect

SpecConnect == InitConnect /\ [][NextConnect]_vars

\* ------------------------------------------------------- pure: submit
\* One submit of a parameter record and one of the Command built from it,
\* each as the first call on the same connection.
InitSubmit ==
    /\ conn \in {DbConnect(p) : p \in ConnParameters}
    /\ cache = EmptyStore
    /\ calls = [i \in CallIds |-> NoCall]
    /\ pin \in CommandParameters
    /\ pout = [done |-> FALSE, built |-> Throw(""), ofRecord |-> NoCall, ofCommand |-> NoCall]

\* submit(built.val) when new Command succeeded.
submitBuilt(c, built) ==
    IF built.ok THEN submit(c, submitCommand(TRUE, built.val)) ELSE NoCall

ApplySubmit ==
    /\ ~pout.done
    /\ pout' = [done |-> TRUE,
                built |-> Command(pin),
                ofRecord |-> submit(conn, submitCommand(FALSE, pin)),
                ofCommand |-> submitBuilt(conn, Command(pin))]
    /\ UNCHANGED <<conn, cache, calls, pin>>

NextSubmit == ApplySubmit

SpecSubmit == InitSubmit /\ [][NextSubmit]_vars

\* ------------------------------------------- pure: the key of a submit
\* Records that differ in statement, timeout, cacheTtl and staleTtl.
KeyParameters ==
    { st \o ti \o ct \o sl :
        st \in {<<Prop("statement", Str(Select1))>>, <<Prop("statement", Str(SelectA))>>},
        ti \in Opt("timeout", {Num(5)}),
        ct \in Opt("cacheTtl", {Num(-1), Num(60)}),
        sl \in Opt("staleTtl", {Num(-1), Num(3), Num(60)}) }

\* Two submits, each as the first call on the same connection.
InitSubmitKey ==
    /\ conn \in {DbConnect(p) : p \in ConnParameters}
    /\ cache = EmptyStore
    /\ calls = [i \in CallIds |-> NoCall]
    /\ pin \in [a : KeyParameters, b : KeyParameters]
    /\ pout = [done |-> FALSE, a |-> NoCall, b |-> NoCall]

ApplySubmitKey ==
    /\ ~pout.done
    /\ pout' = [done |-> TRUE,
                a |-> submit(conn, submitCommand(FALSE, pin.a)),
                b |-> submit(conn, submitCommand(FALSE, pin.b))]
    /\ UNCHANGED <<conn, cache, calls, pin>>

NextSubmitKey == ApplySubmitKey

SpecSubmitKey == InitSubmitKey /\ [][NextSubmitKey]_vars

\* ------------------------------------------------------------------ claims
Started(c) == c.pc # "idle"
Finished(c) == c.pc \in {"done", "rejected"}
BothNegative(c) == Started(c) /\ c.cacheTtl < 0 /\ c.staleTtl < 0
CachingEnabled(c) == c.pc \notin {"idle", "rejected"} /\ (c.cacheTtl >= 0 \/ c.staleTtl >= 0)
Header(h, n) == IF n \in DOMAIN h THEN h[n] ELSE "(absent)"

\* C1: a call whose cacheTtl and staleTtl are both negative makes exactly one
\* origin call, no cache.match and no cache.put, and none of its steps
\* changes the store, even when the store holds an entry under its key.
C1_BypassLeavesStoreAlone ==
    [][\A i \in CallIds :
          (BothNegative(calls[i]) /\ calls'[i] # calls[i]) =>
              /\ cache' = cache
              /\ calls'[i].nOrigin = 1
              /\ calls'[i].nMatch = 0
              /\ calls'[i].nPut = 0]_vars

C1_Witness ==
    \E i \in CallIds :
        /\ BothNegative(calls[i])
        /\ calls[i].pc = "done"
        /\ calls[i].nOrigin = 1
        /\ calls[i].key.url \in DOMAIN cache

\* C2: when the lookup of a caching-enabled call finds an entry, the call
\* returns exactly the stored response and makes no origin call and no put.
C2_HitReturnsStored ==
    [][\A i \in CallIds :
          (/\ calls[i].pc = "keyed"
           /\ CachingEnabled(calls[i])
           /\ calls[i].key.url \in DOMAIN cache
           /\ calls'[i] # calls[i]) =>
              /\ calls'[i].pc = "done"
              /\ calls'[i].resp = cache[calls[i].key.url]
              /\ calls'[i].nOrigin = 0
              /\ calls'[i].nPut = 0
              /\ calls'[i].req = NoRequest
              /\ cache' = cache]_vars

C2_Witness ==
    \E i \in CallIds :
        /\ calls[i].pc = "done"
        /\ calls[i].hit
        /\ Header(calls[i].resp.headers, "Cache-control") = "public, max-age=60, stale-while-revalidate=60"
        /\ calls[i].nOrigin = 0

\* C3: every caching-enabled call whose lookup misses makes one origin call,
\* stamps the directive of its own ttls on the response, puts a copy under
\* the key it looked up, and returns the stamped response.
C3_MissFetchesStampsStores ==
    \A i \in CallIds :
        (Finished(calls[i]) /\ calls[i].nMatch = 1 /\ ~calls[i].hit) =>
            /\ calls[i].pc = "done"
            /\ calls[i].nOrigin = 1
            /\ calls[i].nPut = 1
            /\ calls[i].putKey = calls[i].key
            /\ Header(calls[i].resp.headers, "Cache-control")
                   = cacheHeader(calls[i].cacheTtl, calls[i].staleTtl)

\* C4: a response redirected to a host ending in the gateway suffix comes
\* back from fetchOrigin not ok and carrying the fixed text, whatever its
\* status and body were.
C4_GatewayIsNotOk ==
    \A i \in CallIds :
        (/\ calls[i].pc \in {"put", "done"}
         /\ calls[i].nOrigin = 1
         /\ calls[i].raw.redirected
         /\ EndsWith(calls[i].raw.hostname, GatewaySuffix)) =>
            /\ ~Ok(calls[i].resp)
            /\ calls[i].resp.body = Rejected

\* C5: a ping, or a submit of a valid command, never ends by rejecting:
\* transport failure, non-2xx and gateway interception all end in a response.
C5_NeverRejects ==
    \A i \in CallIds :
        (Started(calls[i]) /\ calls[i].key # NoKey) => calls[i].pc # "rejected"

\* C6: for two negative ttls cacheHeader is exactly
\* "private, no-store, no-cache".
C6_ForbidsStorage ==
    (pout.done /\ pin.cacheTtl < 0 /\ pin.staleTtl < 0) =>
        pout.value = "private, no-store, no-cache"

\* C7: for ttls not both negative cacheHeader is "public", then
\* ", max-age=<cacheTtl>" exactly when cacheTtl >= 0, then
\* ", stale-while-revalidate=<staleTtl>" exactly when staleTtl >= 0.
C7_PublicDirective ==
    (pout.done /\ ~(pin.cacheTtl < 0 /\ pin.staleTtl < 0)) =>
        /\ pout.value =
               "public"
               \o (IF pin.cacheTtl >= 0 THEN ", max-age=" \o Dec(pin.cacheTtl) ELSE "")
               \o (IF pin.staleTtl >= 0
                   THEN ", stale-while-revalidate=" \o Dec(pin.staleTtl) ELSE "")
        /\ (pin.cacheTtl = 60 /\ pin.staleTtl = -1) => pout.value = "public, max-age=60"
        /\ (pin.cacheTtl = 0 /\ pin.staleTtl = 3)
               => pout.value = "public, max-age=0, stale-while-revalidate=3"

C7_Witness ==
    /\ pout.done
    /\ pin.cacheTtl = 0 /\ pin.staleTtl = 3
    /\ pout.value = "public, max-age=0, stale-while-revalidate=3"

\* C8: the origin request of a submit is a POST to <base>/submit with
\* Content-type: application/json and the JSON of the normalized Command as
\* its body; the origin request of a ping is a GET to <base>/ping.
C8_WireContract ==
    \A i \in CallIds :
        calls[i].nOrigin > 0 =>
            IF calls[i].op = "submit"
            THEN /\ calls[i].req.method = "POST"
                 /\ calls[i].req.url = "https://db.example.com/submit"
                 /\ Header(calls[i].req.headers, "Content-type") = "application/json"
                 /\ calls[i].req.hasBody
                 /\ Flat(calls[i].req.body) = Flat(JsonStringify(calls[i].cmd))
            ELSE /\ calls[i].req.method = "GET"
                 /\ calls[i].req.url = "https://db.example.com/ping"

\* C9: the headers of an origin request are the per-call headers merged with
\* the connection's, the connection's value winning on a shared name.
C9_HeaderMerge ==
    \A i \in CallIds :
        calls[i].nOrigin > 0 =>
            calls[i].req.headers =
                [n \in (DOMAIN calls[i].init.headers) \cup (DOMAIN conn.headers) |->
                    IF n \in DOMAIN conn.headers
                    THEN conn.headers[n]
                    ELSE calls[i].init.headers[n]]

\* C10: on one connection and path, two POST bodies derive the same cache key
\* exactly when they are the same string.
C10_KeyIffBody ==
    pout.done => ((pout.a = pout.b) <=> (Flat(pin.a) = Flat(pin.b)))

C10_Witness ==
    /\ pout.done
    /\ pin.a = <<Quote>> /\ pin.b = <<Backslash, Quote>>
    /\ pout.a # pout.b

\* What a parameter record supplies.
Supplied(p, k) == \E i \in 1..Len(p) : p[i].k = k
Value(p, k) == p[CHOOSE i \in 1..Len(p) : p[i].k = k].v
HasStatement(p) == Supplied(p, "statement") /\ Value(p, "statement").s # <<>>

C12_StaleTtlResolved ==
    (pout.done /\ pout.made.ok) =>
        IF Supplied(pin, "staleTtl")
        THEN Value(pout.made.val, "staleTtl") = Value(pin, "staleTtl")
        ELSE /\ Value(pout.made.val, "staleTtl") = Value(pout.made.val, "cacheTtl")
             /\ ~Supplied(pin, "cacheTtl") => Value(pout.made.val, "staleTtl") = Num(-1)
             /\ (Supplied(pin, "cacheTtl") /\ Value(pin, "cacheTtl") = Num(60))
                    => Value(pout.made.val, "staleTtl") = Num(60)

\* C13: a Command made without a staleTtl has staleTtl -1 whatever its
\* cacheTtl, so the directive of a command given only cacheTtl 60 has no
\* stale-while-revalidate clause.
C13_StaleTtlOffByDefault ==
    (pout.done /\ pout.made.ok /\ ~Supplied(pin, "staleTtl")) =>
        /\ Value(pout.made.val, "staleTtl") = Num(-1)
        /\ (Supplied(pin, "cacheTtl") /\ Value(pin, "cacheTtl") = Num(60))
               => cacheHeader(Value(pout.made.val, "cacheTtl").n,
                              Value(pout.made.val, "staleTtl").n) = "public, max-age=60"

\* A string option that is present and not empty.
Given(p, k) == Supplied(p, k) /\ Value(p, k).s # <<>>
HasScheme(s) == \E i \in 1..Len(s) : s[i] = "://"
Origin(u) == u.protocol \o "//" \o Flat(u.hostname)

\* C14: with a host, new DbConnect fails with the pairing error when exactly
\* one of clientId and clientSecret is supplied, and succeeds when both or
\* neither is.
C14_CredentialPairing ==
    (pout.done /\ Given(pin, "host")) =>
        IF Given(pin, "clientId") # Given(pin, "clientSecret")
        THEN /\ ~pout.conn.ok
             /\ pout.conn.err = "both clientId and clientSecret must be specified"
        ELSE pout.conn.ok

\* C16: a host without a scheme gives the base URL https://<host>, a host
\* with a scheme is kept, and an absent or empty host is a configuration
\* error.
C16_HostNormalized ==
    pout.done =>
        IF ~Given(pin, "host")
        THEN ~pout.conn.ok /\ pout.conn.err = "host is a required argument"
        ELSE (Given(pin, "clientId") = Given(pin, "clientSecret")) =>
                /\ pout.conn.ok
                /\ Origin(pout.conn.url) =
                       IF HasScheme(Value(pin, "host").s)
                       THEN Flat(Value(pin, "host").s)
                       ELSE "https://" \o Flat(Value(pin, "host").s)

\* The connection each parameter record builds.
Connections == [p \in ConnParameters |-> DbConnect(p)]

\* C15: on a connection built with both credentials every origin request of
\* ping and submit carries Cf-access-client-id and Cf-access-client-secret
\* with the configured values; on one built with neither, no origin request
\* carries either header.
C15_CredentialsInjected ==
    \A p \in ConnParameters :
        conn = Connections[p] =>
            \A i \in CallIds :
                calls[i].nOrigin > 0 =>
                    IF Given(p, "clientId") /\ Given(p, "clientSecret")
                    THEN /\ Header(calls[i].req.headers, "Cf-access-client-id")
                                = Flat(Value(p, "clientId").s)
                         /\ Header(calls[i].req.headers, "Cf-access-client-secret")
                                = Flat(Value(p, "clientSecret").s)
                    ELSE /\ "Cf-access-client-id" \notin DOMAIN calls[i].req.headers
                         /\ "Cf-access-client-secret" \notin DOMAIN calls[i].req.headers

C15_Witness ==
    /\ \E i \in CallIds : calls[i].op = "ping" /\ calls[i].nOrigin = 1
    /\ \E i \in CallIds :
          /\ calls[i].op = "submit" /\ calls[i].nOrigin = 1
          /\ Header(calls[i].req.headers, "Cf-access-client-secret") = "secret"

\* C17: a submit refused for its missing statement has made no origin call,
\* no cache.match and no cache.put, and a connection refused at construction
\* has made no call at all.
C17_ConfigurationErrorsFirst ==
    /\ \A i \in CallIds :
          (calls[i].pc = "rejected" /\ calls[i].err = "statement is a required argument") =>
              /\ calls[i].nOrigin = 0
              /\ calls[i].nMatch = 0
              /\ calls[i].nPut = 0
              /\ calls[i].req = NoRequest
    /\ ~conn.ok =>
          /\ conn.err \in {"host is a required argument",
                           "both clientId and clientSecret must be specified"}
          /\ \A i \in CallIds : calls[i] = NoCall

C17_Witness ==
    /\ calls[1].pc = "done" /\ calls[1].nPut = 1
    /\ calls[2].pc = "rejected" /\ calls[2].err = "statement is a required argument"
    /\ calls[2].nOrigin = 0

\* C18: a ping runs with cacheTtl 0 and staleTtl 3; when the store has the
\* ping key it returns the stored response without an origin call, and when
\* the store has it no more it makes one origin call and stores the response
\* with "public, max-age=0, stale-while-revalidate=3".
C18_PingServedStale ==
    \A i \in CallIds :
        (calls[i].op = "ping" /\ Started(calls[i])) =>
            /\ calls[i].cacheTtl = 0 /\ calls[i].staleTtl = 3
            /\ calls[i].hit => (calls[i].nOrigin = 0 /\ calls[i].pc = "done")
            /\ (Finished(calls[i]) /\ ~calls[i].hit) =>
                  /\ calls[i].nOrigin = 1
                  /\ calls[i].nPut = 1
                  /\ Header(calls[i].resp.headers, "Cache-control")
                         = "public, max-age=0, stale-while-revalidate=3"

\* C19: submit of a record with a statement and submit of the Command built
\* from it start the same call: same Command, body, key and ttls; the
\* Command given is the one used.
C19_SubmitNormalizesOnce ==
    (pout.done /\ HasStatement(pin)) =>
        /\ pout.built.ok
        /\ pout.ofRecord = pout.ofCommand
        /\ pout.ofCommand.pc = "keyed"
        /\ pout.ofCommand.cmd = pout.built.val
        /\ Flat(pout.ofRecord.init.body) = Flat(JsonStringify(pout.built.val))
        /\ pout.ofRecord.cacheTtl = Value(pout.built.val, "cacheTtl").n
        /\ pout.ofRecord.staleTtl = Value(pout.built.val, "staleTtl").n

C19_Witness ==
    /\ pout.done
    /\ pin = <<Prop("statement", Str(Select1)), Prop("cacheTtl", Num(60))>>
    /\ pout.ofRecord.pc = "keyed"
    /\ pout.ofRecord.staleTtl = 60
    /\ pout.ofRecord.key = pout.ofCommand.key

\* C20: a put writes the caller's own origin response under its key whatever
\* is there, so of two calls that both missed the later put stays; each
\* caller keeps the response of its own origin call.
C20_LastWriteWins ==
    [][\A i \in CallIds :
          (calls[i].pc = "put" /\ calls'[i].pc = "done") =>
              /\ cache' = [u \in (DOMAIN cache) \cup {calls[i].key.url} |->
                              IF u = calls[i].key.url THEN calls[i].resp ELSE cache[u]]
              /\ calls'[i].resp = calls[i].resp
              /\ calls'[i].resp.status = calls[i].raw.status
              /\ calls'[i].nOrigin = 1]_vars

C20_Witness ==
    /\ calls[1].key = calls[2].key
    /\ calls[1].pc = "done" /\ ~calls[1].hit /\ calls[1].nOrigin = 1 /\ calls[1].nPut = 1
    /\ calls[2].pc = "put" /\ ~calls[2].hit /\ calls[2].nOrigin = 1
    /\ cache[calls[1].key.url] = calls[1].resp
    /\ calls[2].resp # calls[1].resp

\* C21: a step of a call changes the store only by writing the entry under
\* that call's own key, after its miss; it removes no entry and leaves the
\* entry under every other key as it was.
C21_OnlyOwnKeyPut ==
    [][calls' # calls =>
          /\ DOMAIN cache \subseteq DOMAIN cache'
          /\ \A u \in DOMAIN cache' :
                (u \notin DOMAIN cache \/ cache'[u] # cache[u]) =>
                    \E i \in CallIds :
                        /\ calls[i].pc = "put" /\ calls'[i].pc = "done"
                        /\ calls[i].nMatch = 1 /\ ~calls[i].hit
                        /\ calls[i].key.url = u
                        /\ cache'[u] = calls[i].resp]_vars

C21_Witness ==
    \E i \in CallIds, u \in DOMAIN cache :
        /\ calls[i].pc = "done" /\ calls[i].nPut = 1
        /\ calls[i].key.url # u
        /\ cache[u] = Foreign
        /\ calls[i].key.url \in DOMAIN cache

\* C22: one call makes at most one origin call, one cache.match and one
\* cache.put, whether the origin answered, failed, or the gateway stepped in.
C22_NoRetry ==
    \A i \in CallIds :
        /\ calls[i].nOrigin <= 1
        /\ calls[i].nMatch <= 1
        /\ calls[i].nPut <= 1
        /\ Finished(calls[i]) => calls[i].nOrigin + calls[i].nMatch >= 1
                                 \/ calls[i].err = "statement is a required argument"

C22_Witness ==
    /\ calls[1].pc = "rejected" /\ calls[1].err = "fetch failed" /\ calls[1].nOrigin = 1
    /\ calls[2].pc = "done" /\ calls[2].resp.status = 500 /\ calls[2].nOrigin = 1

\* C23: every field a record supplies keeps its value in the Command, 0
\* included: a supplied cacheTtl 0 stays 0, a supplied staleTtl 0 stays 0,
\* and a record with cacheTtl 0 and staleTtl 3 is submitted with caching on.
C23_SuppliedValuesKept ==
    (pout.done /\ HasStatement(pin)) =>
        /\ pout.built.ok
        /\ \A k \in CommandFields :
              Supplied(pin, k) => Value(pout.built.val, k) = Value(pin, k)
        /\ (/\ Supplied(pin, "cacheTtl") /\ Value(pin, "cacheTtl") = Num(0)
            /\ Supplied(pin, "staleTtl") /\ Value(pin, "staleTtl") = Num(3)) =>
              /\ pout.ofRecord.pc = "keyed"
              /\ ~(pout.ofRecord.cacheTtl < 0 /\ pout.ofRecord.staleTtl < 0)

\* C24: a constructed Command has mode query or exec, an isolation of the
\* Isolation vocabulary and a timeout that is not negative, and so has the
\* Command a submit sends.
C24_DomainsHold ==
    (pout.done /\ pout.built.ok) =>
        /\ Flat(Value(pout.built.val, "mode").s) \in Modes
        /\ Flat(Value(pout.built.val, "isolation").s) \in Isolations
        /\ Value(pout.built.val, "timeout").n >= 0
        /\ pout.ofRecord.pc = "keyed" =>
              /\ Flat(Value(pout.ofRecord.cmd, "mode").s) \in Modes
              /\ Flat(Value(pout.ofRecord.cmd, "isolation").s) \in Isolations
              /\ Value(pout.ofRecord.cmd, "timeout").n >= 0

\* C25: a completed put leaves the entry under the call's key, a step of a
\* call removes no entry, calls with the same path, method and body have the
\* same key, and a lookup that finds the entry returns it with no origin
\* call: without eviction, calls one after another make one origin call.
C25_EntryLifecycle ==
    [][/\ \A i \in CallIds :
             (calls[i].pc = "put" /\ calls'[i].pc = "done") =>
                 /\ calls[i].key.url \in DOMAIN cache'
                 /\ cache'[calls[i].key.url] = calls'[i].resp
       /\ calls' # calls => DOMAIN cache \subseteq DOMAIN cache'
       /\ \A i, j \in CallIds :
             (/\ Started(calls[i]) /\ Started(calls[j])
              /\ calls[i].path = calls[j].path
              /\ calls[i].init.method = calls[j].init.method
              /\ calls[i].init.body = calls[j].init.body) =>
                 calls[i].key = calls[j].key
       /\ \A j \in CallIds :
             (/\ calls[j].pc = "keyed"
              /\ ~(calls[j].cacheTtl < 0 /\ calls[j].staleTtl < 0)
              /\ calls[j].key.url \in DOMAIN cache
              /\ calls'[j] # calls[j]) =>
                 /\ calls'[j].pc = "done" /\ calls'[j].hit
                 /\ calls'[j].resp = cache[calls[j].key.url]
                 /\ calls'[j].nOrigin = 0]_vars

C25_Witness ==
    /\ calls[1].op = "submit" /\ calls[1].pc = "done" /\ ~calls[1].hit /\ calls[1].nPut = 1
    /\ calls[2].op = "submit" /\ calls[2].pc = "done" /\ calls[2].hit
    /\ calls[2].key = calls[1].key
    /\ calls[2].resp = calls[1].resp
    /\ calls[1].nOrigin + calls[2].nOrigin = 1

\* C26: two Commands with the same statement, arguments, mode and isolation
\* that differ in cacheTtl, staleTtl or timeout derive different cache keys;
\* the same Command derives the same key.
C26_KeyCoversEveryField ==
    (pout.done /\ pout.a.pc = "keyed" /\ pout.b.pc = "keyed") =>
        /\ (/\ \A k \in {"statement", "arguments", "mode", "isolation"} :
                  Value(pout.a.cmd, k) = Value(pout.b.cmd, k)
            /\ \E k \in {"cacheTtl", "staleTtl", "timeout"} :
                  Value(pout.a.cmd, k) # Value(pout.b.cmd, k)) =>
               pout.a.key.url # pout.b.key.url
        /\ pout.a.cmd = pout.b.cmd => pout.a.key = pout.b.key

C26_Witness ==
    /\ pout.done
    /\ pin.a = <<Prop("statement", Str(Select1)), Prop("cacheTtl", Num(60))>>
    /\ pin.b = <<Prop("statement", Str(Select1)), Prop("cacheTtl", Num(60)),
                 Prop("staleTtl", Num(3))>>
    /\ pout.a.key.url # pout.b.key.url
    /\ pout.a.key.method = "GET"

====
